---- MODULE Spec2Model ----
(***************************************************************************)
(* Model of cards.js: Card, Deck (createDeck, shuffleDeck), Shoe            *)
(* (addShuffledDeck, createShoe, pastCutoff, deal) and the hand evaluators  *)
(* evalHand, scoreHand, isBust, belowHard17.                                *)
(*                                                                         *)
(* A JavaScript value that is either a Number or an Array is written as a   *)
(* record [isArray, items]: the number n is [isArray |-> FALSE,             *)
(* items |-> <<n>>], the array [a, b] is [isArray |-> TRUE,                 *)
(* items |-> <<a, b>>].  Array.isArray(v) is v.isArray.                     *)
(***************************************************************************)
EXTENDS Integers, Sequences, FiniteSets, TLC

VARIABLES
    cards,      \* Shoe.cards: the undealt cards, front first
    numDecks,   \* Shoe.numDecks
    cutoff,     \* Shoe.cutoff, a rational [num, den] (0.75 is 3/4)
    hand,       \* the caller's hand handed to the evaluators
    op,         \* the last operation called
    arg,        \* its argument (deal's num), 0 when it has none
    ret,        \* what it returned or threw
    built,      \* history: every card ever put in the shoe, in order
    dealt       \* history: every card deal() ever returned, in order

vars == <<cards, numDecks, cutoff, hand, op, arg, ret, built, dealt>>

----------------------------------------------------------------------------
(* Bounds of the model *)

MaxDecks == 2          \* numDecks ranges over 1..MaxDecks
PatLen == 2            \* period of the modelled Math.random() streams
RandDen == 2           \* Math.random() yields u / RandDen, u in 0..RandDen-1
MaxDeal == 3           \* deal(num) is called with num in -1..MaxDeal
MaxHand == 4           \* hands of up to MaxHand cards are evaluated
MaxBuilt == 3          \* SpecRebuild: decks ever put in one shoe
MaxDealt == 3          \* SpecRebuild: deal is called while fewer were dealt

----------------------------------------------------------------------------
(* Card and Deck *)

Number(n) == [isArray |-> FALSE, items |-> <<n>>]
Array(s) == [isArray |-> TRUE, items |-> s]

suits == <<"clubs", "diamonds", "hearts", "spades">>
ranks == <<"ace", "2", "3", "4", "5", "6", "7", "8", "9", "10",
           "jack", "queen", "king">>
\* the ace worth [1, 11]
valuesAceEleven ==
    <<Array(<<1, 11>>), Number(2), Number(3), Number(4), Number(5),
      Number(6), Number(7), Number(8), Number(9), Number(10),
      Number(10), Number(10), Number(10)>>

values == <<Array(<<1, 10>>), Number(2), Number(3), Number(4), Number(5),
            Number(6), Number(7), Number(8), Number(9), Number(10),
            Number(10), Number(10), Number(10)>>

\* (rank[0] + suit[0]).toUpperCase(): the first characters, upper-cased
UpperFirst(s) ==
    CASE s = "ace" -> "A"
      [] s = "10" -> "1"
      [] s = "jack" -> "J"
      [] s = "queen" -> "Q"
      [] s = "king" -> "K"
      [] s = "clubs" -> "C"
      [] s = "diamonds" -> "D"
      [] s = "hearts" -> "H"
      [] s = "spades" -> "S"
      [] OTHER -> s

Card(suit, rank, value) ==
    [suit |-> suit, rank |-> rank, value |-> value,
     image_name |-> UpperFirst(rank) \o UpperFirst(suit) \o ".png"]

\* Deck.createDeck pushes, suit by suit, one card per rank on this.cards
CreateDeck(deckCards) ==
    deckCards \o
    [n \in 1..(Len(suits) * Len(ranks)) |->
        Card(suits[((n - 1) \div Len(ranks)) + 1],
             ranks[((n - 1) % Len(ranks)) + 1],
             values[((n - 1) % Len(ranks)) + 1])]

\* The streams Math.random() can produce in the model: the t-th draw of
\* stream rnd is rnd[(t % PatLen) + 1] / RandDen.
RandomStreams == [1..PatLen -> 0..(RandDen - 1)]

MathRandom(rnd, t) == rnd[(t % PatLen) + 1]

\* Math.floor(Math.random() * (i + 1)) for the draw u / RandDen
RandomIndex(u, i) == (u * (i + 1)) \div RandDen

\* the swap without temp: cards[i] is overwritten and lost
SwapLost(c, i, j) == [c EXCEPT ![i + 1] = c[j + 1]]

\* one iteration of the loop: swap this.cards[i] and this.cards[j]
\* (i, j are the 0-based indices of the code)
Swap(c, i, j) ==
    [c EXCEPT ![i + 1] = c[j + 1], ![j + 1] = c[i + 1]]

\* the iterations i = hi, hi - 1, ..., lo of the loop on the deck c, the
\* iteration i taking draw number t + (c.length - 1 - i) of the stream.
\* (Here and in the loops below the range is halved and the first half's
\* result d is a bound variable: the second half starts from its value.)
RECURSIVE ShuffleLoop(_, _, _, _, _)
ShuffleLoop(c, hi, lo, rnd, t) ==
    IF hi < lo THEN c
    ELSE IF hi = lo
         THEN Swap(c, hi,
                   RandomIndex(MathRandom(rnd, t + (Len(c) - 1 - hi)), hi))
         ELSE LET mid == (hi + lo) \div 2
              IN  CHOOSE r \in {ShuffleLoop(d, mid, lo, rnd, t) :
                                  d \in {ShuffleLoop(c, hi, mid + 1, rnd, t)}} :
                      TRUE

\* Deck.shuffleDeck: for (i = this.cards.length - 1; i > 0; i -= 1);
\* t is the number of draws already taken from rnd
ShuffleDeck(deckCards, rnd, t) ==
    ShuffleLoop(deckCards, Len(deckCards) - 1, 1, rnd, t)

----------------------------------------------------------------------------
(* Shoe *)

DeckSize == 52

DefaultCutoff == [num |-> 3, den |-> 4]
Cutoffs == {DefaultCutoff, [num |-> 29, den |-> 1]}

\* Shoe.addShuffledDeck on a shoe holding shoeCards
AddShuffledDeckTo(shoeCards, rnd, t) ==
    shoeCards \o ShuffleDeck(CreateDeck(<<>>), rnd, t)

\* the iterations i = lo, ..., hi of createShoe's loop; every deck takes
\* one draw per card but the first, so iteration i starts at draw
\* i * (cards of a deck - 1)
RECURSIVE CreateShoeLoop(_, _, _, _)
CreateShoeLoop(shoeCards, lo, hi, rnd) ==
    IF hi < lo THEN shoeCards
    ELSE IF hi = lo
         THEN AddShuffledDeckTo(shoeCards, rnd,
                                lo * (Len(suits) * Len(ranks) - 1))
         ELSE LET mid == (hi + lo) \div 2
              IN  CHOOSE r \in {CreateShoeLoop(d, mid + 1, hi, rnd) :
                                  d \in {CreateShoeLoop(shoeCards, lo, mid,
                                                        rnd)}} :
                      TRUE

\* Shoe.createShoe: numDecks calls of addShuffledDeck
CreateShoeOn(shoeCards, n, rnd) == CreateShoeLoop(shoeCards, 0, n - 1, rnd)

NoValue == [kind |-> "undefined"]
NotEnough == [kind |-> "error", message |-> "Not enough cards to deal!"]

\* pop() in place of shift(): the card is taken from the back
DealOnePop(st) ==
    [cards |-> SubSeq(st.cards, 1, Len(st.cards) - 1),
     out |-> Append(st.out, st.cards[Len(st.cards)])]

\* cards.push(this.cards.shift()) on st = [cards, out]
DealOne(st) ==
    [cards |-> Tail(st.cards), out |-> Append(st.out, Head(st.cards))]

\* the iterations i = lo, ..., hi of deal's loop
RECURSIVE DealLoop(_, _, _)
DealLoop(st, lo, hi) ==
    IF hi < lo THEN st
    ELSE IF hi = lo THEN DealOne(st)
         ELSE LET mid == (hi + lo) \div 2
              IN  CHOOSE r \in {DealLoop(d, mid + 1, hi) :
                                  d \in {DealLoop(st, lo, mid)}} :
                      TRUE

\* the length checked after the removal: a short shoe is emptied first
DealFromPartial(shoeCards, num) ==
    IF Len(shoeCards) < num
    THEN [cards |-> <<>>, ret |-> NotEnough]
    ELSE IF num = 1
         THEN [cards |-> Tail(shoeCards),
               ret |-> [kind |-> "card", card |-> Head(shoeCards)]]
         ELSE LET st == DealLoop([cards |-> shoeCards, out |-> <<>>],
                                 0, num - 1)
              IN  [cards |-> st.cards,
                   ret |-> [kind |-> "cards", cards |-> st.out]]

\* this.cards[0] in place of this.cards.shift(): the card stays in the shoe
DealFromPeek(shoeCards, num) ==
    IF Len(shoeCards) < num
    THEN [cards |-> shoeCards, ret |-> NotEnough]
    ELSE IF num = 1
         THEN [cards |-> shoeCards,
               ret |-> [kind |-> "card", card |-> Head(shoeCards)]]
         ELSE LET st == DealLoop([cards |-> shoeCards, out |-> <<>>],
                                 0, num - 1)
              IN  [cards |-> st.cards,
                   ret |-> [kind |-> "cards", cards |-> st.out]]

\* Shoe.deal(num): the shoe's cards afterwards and what the call returns
DealFrom(shoeCards, num) ==
    IF Len(shoeCards) < num
    THEN [cards |-> shoeCards, ret |-> NotEnough]
    ELSE IF num = 1
         THEN [cards |-> Tail(shoeCards),
               ret |-> [kind |-> "card", card |-> Head(shoeCards)]]
         ELSE LET st == DealLoop([cards |-> shoeCards, out |-> <<>>],
                                 0, num - 1)
              IN  [cards |-> st.cards,
                   ret |-> [kind |-> "cards", cards |-> st.out]]

\* the cards a deal result hands to the caller, as a sequence
Returned(r) ==
    CASE r.kind = "card" -> <<r.card>>
      [] r.kind = "cards" -> r.cards
      [] OTHER -> <<>>

----------------------------------------------------------------------------
(* IEEE 754 double arithmetic of pastCutoff: a positive double is          *)
(* [m, e], m its 53 significand bits (first bit 1) and e the exponent of   *)
(* the first bit: the value is m * 2^(e - 52).  Zero is ZeroDouble.        *)

Precision == 53

ZeroDouble == [m |-> <<>>, e |-> 0]

RECURSIVE Pow2(_)
Pow2(n) ==
    IF n = 0 THEN 1
    ELSE LET h == Pow2(n \div 2)
         IN  IF n % 2 = 0 THEN h * h ELSE 2 * h * h

\* 2^k modulo den
RECURSIVE Pow2Mod(_, _)
Pow2Mod(k, den) ==
    IF k = 0 THEN 1 % den
    ELSE LET h == Pow2Mod(k \div 2, den)
         IN  IF k % 2 = 0 THEN (h * h) % den ELSE (((h * h) % den) * 2) % den

\* the largest e with den * 2^e <= num, for num >= den
RECURSIVE ExpUp(_, _)
ExpUp(num, den) == IF num >= 2 * den THEN 1 + ExpUp(num, 2 * den) ELSE 0

\* the smallest s with num * 2^s >= den, for 0 < num < den
RECURSIVE ExpDown(_, _)
ExpDown(num, den) == IF num < den THEN 1 + ExpDown(2 * num, den) ELSE 0

\* (num * 2^k) modulo den: what is left of num / den after the binary
\* digit of weight 2^-k
QuotRem(num, den, k) == ((num % den) * Pow2Mod(k, den)) % den

\* the first n binary digits of num / den for den <= num < 2 * den, most
\* significant (the digit of weight 1) first
QuotBits(num, den, n) ==
    [k \in 1..n |->
        IF k = 1 THEN num \div den
        ELSE (2 * QuotRem(num, den, k - 2)) \div den]

\* the binary digits of n > 0, most significant first
ToBits(n) ==
    [k \in 1..(ExpUp(n, 1) + 1) |-> (n \div Pow2(ExpUp(n, 1) + 1 - k)) % 2]

\* the w low binary digits of n, most significant first
LowBits(n, w) == [k \in 1..w |-> (n \div Pow2(w - k)) % 2]

\* the integer whose binary digits are bits[lo..hi]
RECURSIVE FromBits(_, _, _)
FromBits(bits, lo, hi) ==
    IF hi < lo THEN 0
    ELSE IF hi = lo THEN bits[lo]
         ELSE LET mid == (hi + lo) \div 2
              IN  FromBits(bits, lo, mid) * Pow2(hi - mid) +
                  FromBits(bits, mid + 1, hi)

\* bits + 1, bits most significant first and not all 1: the trailing 1s
\* become 0 and the last 0 becomes 1
Increment(bits) ==
    LET last0 == CHOOSE k \in 1..Len(bits) :
                    bits[k] = 0 /\ \A l \in (k + 1)..Len(bits) : bits[l] = 1
    IN  [k \in 1..Len(bits) |->
            IF k < last0 THEN bits[k] ELSE IF k = last0 THEN 1 ELSE 0]

AllOnes(bits) == \A k \in 1..Len(bits) : bits[k] = 1

\* round to nearest, ties to even: bits holds at least Precision + 1 bits of
\* the exact value (first bit 1, of exponent e), sticky tells whether
\* anything non-zero follows them
RoundNearestEven(bits, sticky, e) ==
    LET m == SubSeq(bits, 1, Precision)
        guard == bits[Precision + 1]
        rest == sticky \/ \E k \in (Precision + 2)..Len(bits) : bits[k] = 1
        up == guard = 1 /\ (rest \/ m[Precision] = 1)
    IN  IF ~up THEN [m |-> m, e |-> e]
        ELSE IF AllOnes(m)
             THEN [m |-> <<1>> \o [k \in 1..(Precision - 1) |-> 0],
                   e |-> e + 1]
             ELSE [m |-> Increment(m), e |-> e]

\* the double a / b of two integers 0 <= a, 0 < b (each exact as a double)
DoubleDiv(a, b) ==
    IF a = 0 THEN ZeroDouble
    ELSE LET e == IF a >= b THEN ExpUp(a, b) ELSE 0 - ExpDown(a, b)
             num == IF e >= 0 THEN a ELSE a * Pow2(0 - e)
             den == IF e >= 0 THEN b * Pow2(e) ELSE b
         IN  RoundNearestEven(QuotBits(num, den, Precision + 1),
                              QuotRem(num, den, Precision) # 0, e)

\* the significand is multiplied in three limbs of LimbBits binary digits
LimbBits == (Precision + 2) \div 3

\* the i-th limb of the significand m, limb 0 the least significant
Limb(m, i) ==
    FromBits(m, IF i = 2 THEN 1 ELSE Len(m) + 1 - (i + 1) * LimbBits,
             Len(m) - i * LimbBits)

\* the double x * c for a double x and a small integer c >= 2
DoubleTimes(x, c) ==
    IF x = ZeroDouble THEN ZeroDouble
    ELSE LET p0 == Limb(x.m, 0) * c
             p1 == Limb(x.m, 1) * c + (p0 \div Pow2(LimbBits))
             p2 == Limb(x.m, 2) * c + (p1 \div Pow2(LimbBits))
             p == ToBits(p2) \o LowBits(p1, LimbBits) \o LowBits(p0, LimbBits)
         IN  RoundNearestEven(p, FALSE, x.e + (Len(p) - Precision))

\* Math.floor of a double below 2^31, as an integer
DoubleFloor(x) ==
    IF x = ZeroDouble \/ x.e < 0 THEN 0
    ELSE FromBits(x.m, 1, x.e + 1)

----------------------------------------------------------------------------
(* Shoe.pastCutoff *)

\* the fraction floored without the * 100
PercentRemainingUnscaled(remainingCards, numCards) ==
    DoubleFloor(DoubleDiv(remainingCards, numCards))

\* Math.floor((remainingCards / numCards) * 100)
PercentRemaining(remainingCards, numCards) ==
    DoubleFloor(DoubleTimes(DoubleDiv(remainingCards, numCards), 100))

\* percentRemaining < this.cutoff, the cutoff being num / den
PastCutoffOf(shoeCards, n, c) ==
    PercentRemaining(Len(shoeCards), n * DeckSize) * c.den < c.num

----------------------------------------------------------------------------
(* Hand evaluators.  Each is given the caller's array, so its result is    *)
(* [value, hand]: what it returns and what the array holds afterwards.     *)

\* hand.reduce((total, {rank}) => rank === "ace" ? total + 1 : total, 0)
RECURSIVE CountAces(_, _)
CountAces(h, k) ==
    IF k = 0 THEN 0
    ELSE CountAces(h, k - 1) + (IF h[k].rank = "ace" THEN 1 ELSE 0)

\* value.reduce((acc, curr) => acc + curr, 0)
RECURSIVE SumItems(_, _)
SumItems(items, k) ==
    IF k = 0 THEN 0 ELSE SumItems(items, k - 1) + items[k]

\* hand.reduce((total, {value}) => Array.isArray(value) ? ... : ..., 0)
RECURSIVE SumValues(_, _)
SumValues(h, k) ==
    IF k = 0 THEN 0
    ELSE SumValues(h, k - 1) +
         (IF h[k].value.isArray
          THEN SumItems(h[k].value.items, Len(h[k].value.items))
          ELSE h[k].value.items[1])

\* an if in place of the while: at most one ace is lowered
AceLoopOnce(score, numAces) ==
    IF score > 21 /\ numAces # 0 THEN score - 10 ELSE score

\* while (score > 21 && numAces) { score -= 10; numAces--; }
RECURSIVE AceLoop(_, _)
AceLoop(score, numAces) ==
    IF score > 21 /\ numAces # 0
    THEN AceLoop(score - 10, numAces - 1)
    ELSE score

EvalHand(h) ==
    [value |-> AceLoop(SumValues(h, Len(h)), CountAces(h, Len(h))),
     hand |-> h]

ScoreHand(h) ==
    LET value == EvalHand(h)
    IN  [value |-> value.value, hand |-> value.hand]

\* value >= 21 in place of value > 21
IsBustFrom21(h) ==
    LET value == EvalHand(h)
    IN  [value |-> value.value >= 21, hand |-> value.hand]

IsBust(h) ==
    LET value == EvalHand(h)
    IN  [value |-> value.value > 21, hand |-> value.hand]

BelowHard17(h) ==
    LET value == EvalHand(h)
    IN  [value |-> value.value < 17, hand |-> value.hand]

----------------------------------------------------------------------------
(* Operations *)

\* new Shoe(numDecks, cutoff)
Init ==
    /\ cards = <<>>
    /\ numDecks \in 1..MaxDecks
    /\ cutoff \in Cutoffs
    /\ hand = <<>>
    /\ op = "new"
    /\ arg = 0
    /\ ret = NoValue
    /\ built = <<>>
    /\ dealt = <<>>

CreateShoeCall ==
    /\ \E rnd \in RandomStreams :
          cards' = CreateShoeOn(cards, numDecks, rnd)
    /\ built' = built \o SubSeq(cards', Len(cards) + 1, Len(cards'))
    /\ op' = "createShoe"
    /\ arg' = 0
    /\ ret' = NoValue
    /\ UNCHANGED <<numDecks, cutoff, hand, dealt>>

AddShuffledDeckCall ==
    /\ \E rnd \in RandomStreams :
          cards' = AddShuffledDeckTo(cards, rnd, 0)
    /\ built' = built \o SubSeq(cards', Len(cards) + 1, Len(cards'))
    /\ op' = "addShuffledDeck"
    /\ arg' = 0
    /\ ret' = NoValue
    /\ UNCHANGED <<numDecks, cutoff, hand, dealt>>

DealCall(num) ==
    /\ \E r \in {DealFrom(cards, num)} :
          /\ cards' = r.cards
          /\ ret' = r.ret
          /\ dealt' = dealt \o Returned(r.ret)
    /\ op' = "deal"
    /\ arg' = num
    /\ UNCHANGED <<numDecks, cutoff, hand, built>>

PastCutoff ==
    /\ ret' = [kind |-> "boolean",
               value |-> PastCutoffOf(cards, numDecks, cutoff)]
    /\ op' = "pastCutoff"
    /\ arg' = 0
    /\ UNCHANGED <<cards, numDecks, cutoff, hand, built, dealt>>

(* The lifecycle of a Shoe: created, populated by one createShoe(), then   *)
(* drained by deal() while the caller watches pastCutoff().                *)

CreateShoe == built = <<>> /\ CreateShoeCall

Deal == \E num \in (0 - 1)..MaxDeal : DealCall(num)

Next == CreateShoe \/ Deal \/ PastCutoff

Spec == Init /\ [][Next]_vars

(* Any use of the Shoe's methods: createShoe() and addShuffledDeck() are   *)
(* called again on a shoe that already holds cards.                        *)

CreateShoeAgain ==
    /\ Len(built) + numDecks * DeckSize <= MaxBuilt * DeckSize
    /\ CreateShoeCall

AddShuffledDeck ==
    /\ Len(built) + DeckSize <= MaxBuilt * DeckSize
    /\ AddShuffledDeckCall

DealFew ==
    /\ Len(dealt) < MaxDealt
    /\ \E num \in (0 - 1)..MaxDeal : DealCall(num)

NextRebuild == CreateShoeAgain \/ AddShuffledDeck \/ DealFew \/ PastCutoff

SpecRebuild == Init /\ [][NextRebuild]_vars

(* A large shoe dealt a suit's worth of cards at a time.                   *)

BigDecks == 25

InitBig ==
    /\ cards = <<>>
    /\ numDecks = BigDecks
    /\ cutoff \in Cutoffs
    /\ hand = <<>>
    /\ op = "new"
    /\ arg = 0
    /\ ret = NoValue
    /\ built = <<>>
    /\ dealt = <<>>

DealSuit == DealCall(Len(ranks))

NextBig == CreateShoe \/ DealSuit \/ PastCutoff

SpecBig == InitBig /\ [][NextBig]_vars

(* The caller's hand: cards are added one at a time and the hand is        *)
(* handed to the three exported evaluators.                                *)

HandSuits == {"clubs"}

HandCards ==
    {c \in {CreateDeck(<<>>)[n] : n \in 1..Len(CreateDeck(<<>>))} :
        c.suit \in HandSuits}

InitHand ==
    /\ cards = <<>>
    /\ numDecks = 1
    /\ cutoff = DefaultCutoff
    /\ hand = <<>>
    /\ op = "new"
    /\ arg = 0
    /\ ret = NoValue
    /\ built = <<>>
    /\ dealt = <<>>

Hit ==
    /\ Len(hand) < MaxHand
    /\ \E c \in HandCards : hand' = Append(hand, c)
    /\ op' = "hit"
    /\ arg' = 0
    /\ ret' = NoValue
    /\ UNCHANGED <<cards, numDecks, cutoff, built, dealt>>

Evaluate(name, result) ==
    /\ hand' = result.hand
    /\ ret' = [kind |-> name, value |-> result.value]
    /\ op' = name
    /\ arg' = 0
    /\ UNCHANGED <<cards, numDecks, cutoff, built, dealt>>

ScoreHandCall == Evaluate("scoreHand", ScoreHand(hand))

IsBustCall == Evaluate("isBust", IsBust(hand))

BelowHard17Call == Evaluate("belowHard17", BelowHard17(hand))

NextHand == Hit \/ ScoreHandCall \/ IsBustCall \/ BelowHard17Call

SpecHand == InitHand /\ [][NextHand]_vars

----------------------------------------------------------------------------
(* Properties *)

Min(a, b) == IF a < b THEN a ELSE b

AceCount(h) == Cardinality({k \in 1..Len(h) : h[k].rank = "ace"})

\* the sum of the values of the cards of h that are not aces
RECURSIVE OtherSum(_)
OtherSum(h) ==
    IF h = <<>> THEN 0
    ELSE OtherSum(Tail(h)) +
         (IF Head(h).rank = "ace" THEN 0 ELSE Head(h).value.items[1])

\* the score when every ace adds aceWorth and 10 is taken off once per ace
\* while the score is above 21
ScoreWithAces(h, aceWorth) ==
    LET raw == OtherSum(h) + aceWorth * AceCount(h)
        lowered == IF raw <= 21 THEN 0
                   ELSE Min(AceCount(h), (raw - 21 + 9) \div 10)
    IN  raw - 10 * lowered

\* the blackjack value: the largest total not above 21 with each ace counted
\* as 1 or 11, or the total with every ace as 1 when there is none
BlackjackValue(h) ==
    LET low == OtherSum(h) + AceCount(h)
        totals == {low + 10 * m : m \in 0..AceCount(h)}
        good == {t \in totals : t <= 21}
    IN  IF good = {} THEN low
        ELSE CHOOSE t \in good : \A u \in good : u <= t

\* the ranks of the cards of h, in order
RanksOf(h) == [k \in 1..Len(h) |-> h[k].rank]

\* C1: deal(num) with num > cards.length ends in the 'Not enough cards to
\* deal!' error and leaves the shoe's card sequence exactly as it was.
C1_FailedDealKeepsShoe ==
    [][(op' = "deal" /\ arg' > Len(cards))
          => (ret' = NotEnough /\ cards' = cards)]_vars

C1_Witness ==
    op = "deal" /\ ret = NotEnough /\ Len(cards) > 0 /\ arg > Len(cards)

\* C2: deal(num) with 1 <= num <= cards.length removes exactly the first num
\* cards and returns them front to back (one Card when num is 1, a sequence
\* of num Cards when num > 1); the shoe keeps the remaining suffix in order
\* and its length drops by num.
C2_DealTakesPrefix ==
    [][(op' = "deal" /\ 1 <= arg' /\ arg' <= Len(cards))
          => /\ cards' = SubSeq(cards, arg' + 1, Len(cards))
             /\ Len(cards') = Len(cards) - arg'
             /\ arg' = 1 => ret' = [kind |-> "card", card |-> cards[1]]
             /\ arg' > 1 => /\ ret'.kind = "cards"
                            /\ Len(ret'.cards) = arg'
                            /\ ret'.cards = SubSeq(cards, 1, arg')]_vars

C2_Witness ==
    /\ op = "deal"
    /\ arg > 1
    /\ ret.kind = "cards"
    /\ Len(ret.cards) = arg
    /\ cards # <<>>

\* C3: after createShoe(), over any sequence of deal calls, the cards
\* returned so far, in deal order, followed by the cards still in the shoe,
\* are the card sequence the shoe held right after createShoe().
C3_NoCardTwice == dealt \o cards = built

C3_Witness ==
    /\ built # <<>>
    /\ op = "deal"
    /\ ret.kind = "card"
    /\ Len(dealt) > MaxDeal
    /\ Len(cards) > 0

\* C4: createShoe() on a new shoe of numDecks = k leaves exactly 52 * k
\* cards, in k contiguous blocks of 52, and every block holds exactly one
\* card for each (suit, rank) pair.
C4_ShoeOfWholeDecks ==
    op = "createShoe" =>
        /\ Len(cards) = DeckSize * numDecks
        /\ \A b \in 0..(numDecks - 1) :
              \A s \in 1..Len(suits) : \A r \in 1..Len(ranks) :
                 Cardinality({i \in 1..DeckSize :
                                 /\ cards[b * DeckSize + i].suit = suits[s]
                                 /\ cards[b * DeckSize + i].rank = ranks[r]})
                    = 1

C4_Witness ==
    /\ op = "createShoe"
    /\ numDecks > 1
    /\ SubSeq(cards, 1, DeckSize) # CreateDeck(<<>>)
    /\ SubSeq(cards, 1, DeckSize) # SubSeq(cards, DeckSize + 1, 2 * DeckSize)

\* C5: in every state reached by createShoe(), addShuffledDeck(), deal(num)
\* and pastCutoff(), cards.length never exceeds numDecks * 52.
C5_Original == Len(cards) <= numDecks * DeckSize

\* C6 as stated: evalHand adds 12 for every ace and then takes 10 off once
\* per ace while the score is above 21 (a single ace scores 12).
C6_Original ==
    op = "scoreHand" => ret.value = ScoreWithAces(hand, 12)

\* C6 amended: evalHand adds 11 (1 + 10) for every ace and then takes 10 off
\* once per ace while the score is above 21; a single ace scores 11 and
\* [ace, king] has raw sum 21 and scores 21.
C6_Amended ==
    op = "scoreHand" =>
        /\ ret.value = ScoreWithAces(hand, 11)
        /\ RanksOf(hand) = <<"ace">> => ret.value = 11
        /\ RanksOf(hand) = <<"ace", "king">> => ret.value = 21

C6_Witness ==
    /\ op = "scoreHand"
    /\ RanksOf(hand) = <<"ace", "king">>
    /\ ret.value = 21

\* C7: pastCutoff() returns true exactly when
\* floor((cards.length / (numDecks * 52)) * 100) < cutoff.
C7_Original ==
    op = "pastCutoff" =>
        (ret.value <=>
            ((100 * Len(cards)) \div (numDecks * DeckSize)) * cutoff.den
                < cutoff.num)

\* C8 as stated: with the default cutoff 0.75, in the states reached by
\* dealing from a created shoe, pastCutoff() is true exactly when
\* 100 * cards.length < 0.75 * numDecks * 52.
C8_Original ==
    (op = "pastCutoff" /\ cutoff = DefaultCutoff /\ built # <<>>) =>
        (ret.value <=>
            100 * Len(cards) * cutoff.den
                < cutoff.num * numDecks * DeckSize)

\* C8 amended: with the default cutoff 0.75, in the states reached by
\* dealing from a created shoe, pastCutoff() is true exactly when the
\* remaining cards are below 1% of the full shoe
\* (100 * cards.length < numDecks * 52).
C8_Amended ==
    (op = "pastCutoff" /\ cutoff = DefaultCutoff /\ built # <<>>) =>
        (ret.value <=> 100 * Len(cards) < numDecks * DeckSize)

C8_Witness ==
    /\ op = "pastCutoff"
    /\ cutoff = DefaultCutoff
    /\ built # <<>>
    /\ Len(cards) = 1
    /\ ret.value

\* C9: isBust(hand) is true exactly when scoreHand(hand) > 21,
\* belowHard17(hand) exactly when scoreHand(hand) < 17, and none of the
\* three evaluators changes the hand.
C9_EvaluatorsAgree ==
    [][/\ op' = "isBust" => (ret'.value <=> ScoreHand(hand).value > 21)
       /\ op' = "belowHard17" => (ret'.value <=> ScoreHand(hand).value < 17)
       /\ op' \in {"scoreHand", "isBust", "belowHard17"} => hand' = hand]_vars

C9_Witness ==
    op = "isBust" /\ ret.value /\ Len(hand) = 3 /\ ~BelowHard17(hand).value

\* C10: the score evalHand returns is the blackjack value of the hand: the
\* largest total not above 21 with each ace counted as 1 or 11, the total
\* with every ace as 1 when there is none, and 0 for the empty hand.
C10_BlackjackValue ==
    op = "scoreHand" =>
        /\ ret.value = BlackjackValue(hand)
        /\ hand = <<>> => ret.value = 0

C10_Witness ==
    op = "scoreHand" /\ AceCount(hand) = 2 /\ ret.value = 12

====
